---- MODULE Spec2Model ----
(***************************************************************************)
(* DerivedFiles/BiblePunctuationSystems_Tables.h                           *)
(*                                                                         *)
(* The header declares three records: punctuationByRefEntry,               *)
(* punctuationByIndexEntry and tableEntry.  The model keeps                *)
(*   - each declaration as the sequence of its fields, in declaration      *)
(*     order, with the type and the const qualifier of each field;         *)
(*   - each instance as the tuple of its field values in that order;       *)
(*   - the memory of a program that includes the header: the string        *)
(*     literals, the two arrays of every punctuation system and the        *)
(*     tableEntry of every system;                                         *)
(*   - the writes a C compiler accepts on those instances: an assignment   *)
(*     to a field is accepted iff the field is not const-qualified, an     *)
(*     assignment of a whole struct iff none of its fields is.             *)
(* The generated data tables are not part of the header; the generator is  *)
(* modelled from the specification text (sorted arrays over one set of     *)
(* pairs).                                                                 *)
(***************************************************************************)
EXTENDS Integers, Sequences, FiniteSets, TLC

VARIABLES strings, refArrays, idxArrays, tables, conv

vars == <<strings, refArrays, idxArrays, tables, conv>>

---------------------------------------------------------------------------
(* Bounds of the model *)

MaxEntries == 2

IntBits == 16

(* Program constants *)

UCharMax == 255

(* Two punctuation systems: the least number with which a tableEntry can  *)
(* be made to refer to another system's name and arrays.                  *)
Systems == {1, 2}

IntMin == -(2 ^ (IntBits - 1))

IntMax == (2 ^ (IntBits - 1)) - 1

---------------------------------------------------------------------------
(* The declarations *)

RefAbbrevSize_NoTerminator == (3 + 1) - 1

RefAbbrevSize == 3 + 1

IdxAbbrevSize_NoTerminator == (3 + 1) - 1

IdxAbbrevSize == 3 + 1

punctuationByRefEntryStruct_IndexNotConst ==
    << [name |-> "referenceAbbreviation", type |-> "uchar[]", size |-> RefAbbrevSize,
        pointee |-> "", pointeeConst |-> FALSE, const |-> TRUE],
       [name |-> "indexNumber", type |-> "int", size |-> 1,
        pointee |-> "", pointeeConst |-> FALSE, const |-> FALSE] >>

punctuationByRefEntryStruct ==
    << [name |-> "referenceAbbreviation", type |-> "uchar[]", size |-> RefAbbrevSize,
        pointee |-> "", pointeeConst |-> FALSE, const |-> TRUE],
       [name |-> "indexNumber", type |-> "int", size |-> 1,
        pointee |-> "", pointeeConst |-> FALSE, const |-> TRUE] >>

punctuationByIndexEntryStruct ==
    << [name |-> "indexNumber", type |-> "int", size |-> 1,
        pointee |-> "", pointeeConst |-> FALSE, const |-> TRUE],
       [name |-> "referenceAbbreviation", type |-> "uchar[]", size |-> IdxAbbrevSize,
        pointee |-> "", pointeeConst |-> FALSE, const |-> TRUE] >>

tableEntryStruct_Swapped ==
    << [name |-> "systemName", type |-> "ptr", size |-> 1,
        pointee |-> "uchar", pointeeConst |-> TRUE, const |-> FALSE],
       [name |-> "byBook", type |-> "ptr", size |-> 1,
        pointee |-> "punctuationByIndexEntry", pointeeConst |-> FALSE, const |-> FALSE],
       [name |-> "byReference", type |-> "ptr", size |-> 1,
        pointee |-> "punctuationByRefEntry", pointeeConst |-> FALSE, const |-> FALSE] >>

tableEntryStruct ==
    << [name |-> "systemName", type |-> "ptr", size |-> 1,
        pointee |-> "uchar", pointeeConst |-> TRUE, const |-> FALSE],
       [name |-> "byReference", type |-> "ptr", size |-> 1,
        pointee |-> "punctuationByRefEntry", pointeeConst |-> FALSE, const |-> FALSE],
       [name |-> "byBook", type |-> "ptr", size |-> 1,
        pointee |-> "punctuationByIndexEntry", pointeeConst |-> FALSE, const |-> FALSE] >>

StructOf(typeName) ==
    CASE typeName = "punctuationByRefEntry"   -> punctuationByRefEntryStruct
      [] typeName = "punctuationByIndexEntry" -> punctuationByIndexEntryStruct
      [] typeName = "tableEntry"              -> tableEntryStruct

FieldNames(decl) == { decl[i].name : i \in 1..Len(decl) }

(* Position of a field in its record: the order of the declaration. *)
Offset(decl, fname) == CHOOSE i \in 1..Len(decl) : decl[i].name = fname

(* inst.fname *)
Get(decl, inst, fname) == inst[Offset(decl, fname)]

(* An initialiser: the values laid out in declaration order. *)
Make(decl, rec) == [i \in 1..Len(decl) |-> rec[decl[i].name]]

---------------------------------------------------------------------------
(* Values of the field types *)

UCharArray(bytes, size) ==
    [t |-> "uchar[]",
     v |-> [i \in 1..size |-> IF i <= Len(bytes) THEN bytes[i] % (UCharMax + 1) ELSE 0]]

IntVal(n) == [t |-> "int", v |-> n]

Ptr(pointee, target) == [t |-> "ptr", to |-> pointee, v |-> target]

IndexNumberValues_unsigned == {0, 1, (2 ^ IntBits) - 1}

(* const int indexNumber: a sample of the values an int holds. *)
IndexNumberValues == {IntMin, -1, 0, IntMax}

(* unsigned char: a sample of the values of one element. *)
UCharValues == {0, 65}

---------------------------------------------------------------------------
(* The generated tables.  The generator and the data it emits are not in   *)
(* the header: what follows is the generator as the specification          *)
(* describes it.                                                           *)

(* Three-character book codes: "GEN", "EXO", "1SA". *)
BookCodes == { <<71, 69, 78>>, <<69, 88, 79>>, <<49, 83, 65>> }

GenIndexNumbers == {0, 1}

Printable(c) == 32 <= c /\ c <= 126

(* strcmp order on sequences of unsigned char *)
LexLess(a, b) ==
    \/ \E i \in 1..Len(a) :
          /\ i <= Len(b)
          /\ \A j \in 1..(i - 1) : a[j] = b[j]
          /\ a[i] < b[i]
    \/ /\ Len(a) < Len(b)
       /\ \A j \in 1..Len(a) : a[j] = b[j]

LexLeq(a, b) == a = b \/ LexLess(a, b)

(* The logical content of one system: a set of <<code, index>> pairs, each *)
(* code at most once.                                                      *)
SystemInputs ==
    { P \in SUBSET (BookCodes \X GenIndexNumbers) :
        /\ Cardinality(P) >= 1
        /\ Cardinality(P) <= MaxEntries
        /\ \A p \in P, q \in P : p[1] = q[1] => p = q }

ByReferenceOrder(p, q) == LexLess(p[1], q[1]) \/ (p[1] = q[1] /\ p[2] <= q[2])

ByBookOrder(p, q) == p[2] < q[2] \/ (p[2] = q[2] /\ LexLeq(p[1], q[1]))

InOrder(order, p, q) ==
    IF order = "byReference" THEN ByReferenceOrder(p, q) ELSE ByBookOrder(p, q)

SortedBy(P, order) ==
    CHOOSE s \in [1..Cardinality(P) -> P] :
        /\ \A i \in 1..Cardinality(P), j \in 1..Cardinality(P) : i # j => s[i] # s[j]
        /\ \A i \in 1..(Cardinality(P) - 1) : InOrder(order, s[i], s[i + 1])

RefEntryInit(code, n) ==
    Make(punctuationByRefEntryStruct,
         [referenceAbbreviation |-> UCharArray(code, RefAbbrevSize),
          indexNumber |-> IntVal(n)])

IdxEntryInit(n, code) ==
    Make(punctuationByIndexEntryStruct,
         [indexNumber |-> IntVal(n),
          referenceAbbreviation |-> UCharArray(code, IdxAbbrevSize)])

GenerateByReference(P) ==
    LET s == SortedBy(P, "byReference")
    IN  [i \in 1..Len(s) |-> RefEntryInit(s[i][1], s[i][2])]

GenerateByBook_SortedByReference(P) ==
    LET s == SortedBy(P, "byReference")
    IN  [i \in 1..Len(s) |-> IdxEntryInit(s[i][2], s[i][1])]

GenerateByBook(P) ==
    LET s == SortedBy(P, "byBook")
    IN  [i \in 1..Len(s) |-> IdxEntryInit(s[i][2], s[i][1])]

(* The name of system s: "S1", "S2", ... with its terminator. *)
SystemNameLiteral(s) == <<83, 48 + s, 0>>

TableEntryInit(s) ==
    Make(tableEntryStruct,
         [systemName  |-> Ptr("uchar", s),
          byReference |-> Ptr("punctuationByRefEntry", s),
          byBook      |-> Ptr("punctuationByIndexEntry", s)])

---------------------------------------------------------------------------
(* Entry-to-entry copies: a local entry of the other type initialised     *)
(* field by field.                                                         *)

NoEntry == << >>

NoConv == [from |-> "none", orig |-> NoEntry, mid |-> NoEntry, back |-> NoEntry]

ByRefToByIndex(e) ==
    Make(punctuationByIndexEntryStruct,
         [indexNumber |-> Get(punctuationByRefEntryStruct, e, "indexNumber"),
          referenceAbbreviation |->
              UCharArray(Get(punctuationByRefEntryStruct, e, "referenceAbbreviation").v,
                         IdxAbbrevSize)])

ByIndexToByRef(e) ==
    Make(punctuationByRefEntryStruct,
         [referenceAbbreviation |->
              UCharArray(Get(punctuationByIndexEntryStruct, e, "referenceAbbreviation").v,
                         RefAbbrevSize),
          indexNumber |-> Get(punctuationByIndexEntryStruct, e, "indexNumber")])

---------------------------------------------------------------------------
(* Initial states *)

(* The program as built: the generator's tables, no local entry. *)
Init ==
    /\ strings = [s \in Systems |-> SystemNameLiteral(s)]
    /\ \E input \in [Systems -> SystemInputs] :
          /\ refArrays = [s \in Systems |-> GenerateByReference(input[s])]
          /\ idxArrays = [s \in Systems |-> GenerateByBook(input[s])]
    /\ tables = [s \in Systems |-> TableEntryInit(s)]
    /\ conv = NoConv

(* Every value the declared field types admit (sampled). *)
RefEntryValues ==
    { Make(punctuationByRefEntryStruct,
           [referenceAbbreviation |-> [t |-> "uchar[]", v |-> a],
            indexNumber |-> IntVal(n)]) :
        a \in [1..RefAbbrevSize -> UCharValues], n \in IndexNumberValues }

IdxEntryValues ==
    { Make(punctuationByIndexEntryStruct,
           [indexNumber |-> IntVal(n),
            referenceAbbreviation |-> [t |-> "uchar[]", v |-> a]]) :
        a \in [1..IdxAbbrevSize -> UCharValues], n \in IndexNumberValues }

(* Any well-typed instances: one entry of each type, arbitrary contents. *)
InitType ==
    /\ strings = [s \in Systems |-> SystemNameLiteral(s)]
    /\ \E r \in RefEntryValues, x \in IdxEntryValues :
          /\ refArrays = [s \in Systems |-> <<r>>]
          /\ idxArrays = [s \in Systems |-> <<x>>]
    /\ tables = [s \in Systems |-> TableEntryInit(s)]
    /\ conv = NoConv

---------------------------------------------------------------------------
(* The writes the declarations admit *)

(* The places an assignment can name: a field of a tableEntry, a field of  *)
(* an entry reached through any array, a character reached through        *)
(* systemName.  arr is the system, elem the element in the array.          *)
LValues ==
    { [type |-> "tableEntry", arr |-> t, elem |-> 1, field |-> f] :
        t \in Systems, f \in FieldNames(tableEntryStruct) }
    \cup
    { [type |-> "punctuationByRefEntry", arr |-> a, elem |-> i, field |-> f] :
        a \in Systems, i \in 1..MaxEntries, f \in FieldNames(punctuationByRefEntryStruct) }
    \cup
    { [type |-> "punctuationByIndexEntry", arr |-> a, elem |-> i, field |-> f] :
        a \in Systems, i \in 1..MaxEntries, f \in FieldNames(punctuationByIndexEntryStruct) }
    \cup
    { [type |-> "uchar", arr |-> t, elem |-> i, field |-> "systemName"] :
        t \in Systems, i \in 1..3 }

(* The object a place lies in exists. *)
Exists(lv) ==
    CASE lv.type = "tableEntry"              -> TRUE
      [] lv.type = "punctuationByRefEntry"   -> lv.elem <= Len(refArrays[lv.arr])
      [] lv.type = "punctuationByIndexEntry" -> lv.elem <= Len(idxArrays[lv.arr])
      [] lv.type = "uchar"                   ->
            lv.elem <= Len(strings[Get(tableEntryStruct, tables[lv.arr], "systemName").v])

(* An assignment to the place compiles: the place is not const-qualified. *)
Modifiable(lv) ==
    IF lv.type = "uchar"
    THEN ~ tableEntryStruct[Offset(tableEntryStruct, lv.field)].pointeeConst
    ELSE ~ StructOf(lv.type)[Offset(StructOf(lv.type), lv.field)].const

(* A struct is assignable as a whole iff it has no const member. *)
StructAssignable(decl) == \A i \in 1..Len(decl) : ~ decl[i].const

Current(lv) ==
    CASE lv.type = "tableEntry" ->
            Get(tableEntryStruct, tables[lv.arr], lv.field)
      [] lv.type = "punctuationByRefEntry" ->
            Get(punctuationByRefEntryStruct, refArrays[lv.arr][lv.elem], lv.field)
      [] lv.type = "punctuationByIndexEntry" ->
            Get(punctuationByIndexEntryStruct, idxArrays[lv.arr][lv.elem], lv.field)
      [] lv.type = "uchar" ->
            strings[Get(tableEntryStruct, tables[lv.arr], "systemName").v][lv.elem]

(* The values of the place's declared type. *)
ValuesFor(lv) ==
    IF lv.type = "uchar"
    THEN UCharValues
    ELSE LET fd == StructOf(lv.type)[Offset(StructOf(lv.type), lv.field)]
         IN  CASE fd.type = "ptr" -> { Ptr(fd.pointee, s) : s \in Systems }
               [] fd.type = "int" -> { IntVal(n) : n \in IndexNumberValues }
               [] fd.type = "uchar[]" ->
                     { [t |-> "uchar[]", v |-> [Current(lv).v EXCEPT ![k] = c]] :
                         k \in 1..fd.size, c \in UCharValues }

SetField(decl, inst, fname, val) == [inst EXCEPT ![Offset(decl, fname)] = val]

(* place = val; *)
AssignField ==
    \E lv \in LValues :
        /\ Exists(lv)
        /\ Modifiable(lv)
        /\ \E val \in ValuesFor(lv) :
              CASE lv.type = "tableEntry" ->
                      /\ tables' = [tables EXCEPT ![lv.arr] =
                                        SetField(tableEntryStruct, @, lv.field, val)]
                      /\ UNCHANGED <<strings, refArrays, idxArrays, conv>>
                [] lv.type = "punctuationByRefEntry" ->
                      /\ refArrays' = [refArrays EXCEPT ![lv.arr][lv.elem] =
                                        SetField(punctuationByRefEntryStruct, @, lv.field, val)]
                      /\ UNCHANGED <<strings, idxArrays, tables, conv>>
                [] lv.type = "punctuationByIndexEntry" ->
                      /\ idxArrays' = [idxArrays EXCEPT ![lv.arr][lv.elem] =
                                        SetField(punctuationByIndexEntryStruct, @, lv.field, val)]
                      /\ UNCHANGED <<strings, refArrays, tables, conv>>
                [] lv.type = "uchar" ->
                      /\ strings' = [strings EXCEPT
                                        ![Get(tableEntryStruct, tables[lv.arr], "systemName").v]
                                         [lv.elem] = val]
                      /\ UNCHANGED <<refArrays, idxArrays, tables, conv>>

(* dst = src; for two objects of one struct type *)
AssignStruct ==
    \E type \in {"tableEntry", "punctuationByRefEntry", "punctuationByIndexEntry"} :
        /\ StructAssignable(StructOf(type))
        /\ \E da \in Systems, sa \in Systems, di \in 1..MaxEntries, si \in 1..MaxEntries :
              CASE type = "tableEntry" ->
                      /\ di = 1 /\ si = 1
                      /\ tables' = [tables EXCEPT ![da] = tables[sa]]
                      /\ UNCHANGED <<strings, refArrays, idxArrays, conv>>
                [] type = "punctuationByRefEntry" ->
                      /\ di <= Len(refArrays[da]) /\ si <= Len(refArrays[sa])
                      /\ refArrays' = [refArrays EXCEPT ![da][di] = refArrays[sa][si]]
                      /\ UNCHANGED <<strings, idxArrays, tables, conv>>
                [] type = "punctuationByIndexEntry" ->
                      /\ di <= Len(idxArrays[da]) /\ si <= Len(idxArrays[sa])
                      /\ idxArrays' = [idxArrays EXCEPT ![da][di] = idxArrays[sa][si]]
                      /\ UNCHANGED <<strings, refArrays, tables, conv>>

(* A local entry of the other type, initialised from an entry of a table.  *)
ConvertEntry ==
    \E a \in Systems, i \in 1..MaxEntries :
        \/ /\ i <= Len(refArrays[a])
           /\ conv' = [from |-> "punctuationByRefEntry",
                       orig |-> refArrays[a][i],
                       mid  |-> ByRefToByIndex(refArrays[a][i]),
                       back |-> NoEntry]
           /\ UNCHANGED <<strings, refArrays, idxArrays, tables>>
        \/ /\ i <= Len(idxArrays[a])
           /\ conv' = [from |-> "punctuationByIndexEntry",
                       orig |-> idxArrays[a][i],
                       mid  |-> ByIndexToByRef(idxArrays[a][i]),
                       back |-> NoEntry]
           /\ UNCHANGED <<strings, refArrays, idxArrays, tables>>

(* A second local entry, of the first type again, initialised from the     *)
(* first local.                                                            *)
ConvertBack ==
    /\ conv.from # "none"
    /\ conv.back = NoEntry
    /\ conv' = [conv EXCEPT !.back =
                   IF conv.from = "punctuationByRefEntry"
                   THEN ByIndexToByRef(conv.mid)
                   ELSE ByRefToByIndex(conv.mid)]
    /\ UNCHANGED <<strings, refArrays, idxArrays, tables>>

(* The writes act on strings, the arrays and tables only, the copies on    *)
(* conv only: the two groups of actions are independent and are explored   *)
(* separately, the writes over the generated tables and the copies over    *)
(* every well-typed entry.                                                 *)
Next == AssignField \/ AssignStruct

Spec == Init /\ [][Next]_vars

NextType == ConvertEntry \/ ConvertBack

SpecType == InitType /\ [][NextType]_vars

---------------------------------------------------------------------------
(* Helpers of the properties *)

ArrayRefEntries == UNION { { refArrays[a][i] : i \in 1..Len(refArrays[a]) } : a \in Systems }

ArrayIdxEntries == UNION { { idxArrays[a][i] : i \in 1..Len(idxArrays[a]) } : a \in Systems }

(* The local entries of each type made by the copies. *)
LocalRefEntries ==
    (IF conv.from = "punctuationByIndexEntry" THEN {conv.mid} ELSE {})
    \cup (IF conv.from = "punctuationByRefEntry" /\ conv.back # NoEntry
          THEN {conv.back} ELSE {})

LocalIdxEntries ==
    (IF conv.from = "punctuationByRefEntry" THEN {conv.mid} ELSE {})
    \cup (IF conv.from = "punctuationByIndexEntry" /\ conv.back # NoEntry
          THEN {conv.back} ELSE {})

AllRefEntries == ArrayRefEntries \cup LocalRefEntries

AllIdxEntries == ArrayIdxEntries \cup LocalIdxEntries

RefAbbrev(e) == Get(punctuationByRefEntryStruct, e, "referenceAbbreviation").v

RefIndex(e) == Get(punctuationByRefEntryStruct, e, "indexNumber").v

IdxAbbrev(e) == Get(punctuationByIndexEntryStruct, e, "referenceAbbreviation").v

IdxIndex(e) == Get(punctuationByIndexEntryStruct, e, "indexNumber").v

(* The arrays reached through a tableEntry *)
ByReferenceOf(t) == refArrays[Get(tableEntryStruct, tables[t], "byReference").v]

ByBookOf(t) == idxArrays[Get(tableEntryStruct, tables[t], "byBook").v]

---------------------------------------------------------------------------
(* C1: no step of the program changes any field of any                     *)
(* punctuationByRefEntry, punctuationByIndexEntry or tableEntry: every     *)
(* field keeps the value it was initialised with, systemName, byReference  *)
(* and byBook of a tableEntry included.                                    *)
C1_NoFieldEverChanges ==
    [][tables' = tables /\ refArrays' = refArrays /\ idxArrays' = idxArrays]_vars

(* C2: for every tableEntry the pairs (referenceAbbreviation, indexNumber) *)
(* of the array reached through byReference are the pairs of the array     *)
(* reached through byBook.                                                 *)
C2_SamePairsInBothArrays ==
    \A t \in Systems :
        { <<RefAbbrev(ByReferenceOf(t)[i]), RefIndex(ByReferenceOf(t)[i])>> :
            i \in 1..Len(ByReferenceOf(t)) }
        = { <<IdxAbbrev(ByBookOf(t)[i]), IdxIndex(ByBookOf(t)[i])>> :
            i \in 1..Len(ByBookOf(t)) }

(* C3: an entry copied field by field into an entry of the other type and  *)
(* copied back has the referenceAbbreviation (all 3+1 elements) and the    *)
(* indexNumber of the original, from either type.                          *)
C3_RoundTripKeepsFields ==
    conv.back # NoEntry =>
        IF conv.from = "punctuationByRefEntry"
        THEN /\ Len(RefAbbrev(conv.back)) = 3 + 1
             /\ RefAbbrev(conv.back) = RefAbbrev(conv.orig)
             /\ RefIndex(conv.back) = RefIndex(conv.orig)
             /\ IdxAbbrev(conv.mid) = RefAbbrev(conv.orig)
             /\ IdxIndex(conv.mid) = RefIndex(conv.orig)
        ELSE /\ Len(IdxAbbrev(conv.back)) = 3 + 1
             /\ IdxAbbrev(conv.back) = IdxAbbrev(conv.orig)
             /\ IdxIndex(conv.back) = IdxIndex(conv.orig)
             /\ RefAbbrev(conv.mid) = IdxAbbrev(conv.orig)
             /\ RefIndex(conv.mid) = IdxIndex(conv.orig)

(* A round trip from a punctuationByRefEntry whose fourth element is not   *)
(* a terminator and whose index is negative.                               *)
C3_Witness ==
    /\ conv.back # NoEntry
    /\ conv.from = "punctuationByRefEntry"
    /\ RefAbbrev(conv.orig)[3 + 1] # 0
    /\ RefIndex(conv.orig) < 0

(* C4: in every instance of either entry type referenceAbbreviation is a   *)
(* sequence of exactly 3+1 elements, whatever it holds.                    *)
C4_AbbreviationHasFourUnits ==
    /\ \A e \in AllRefEntries :
          /\ Get(punctuationByRefEntryStruct, e, "referenceAbbreviation").t = "uchar[]"
          /\ DOMAIN RefAbbrev(e) = 1..(3 + 1)
    /\ \A e \in AllIdxEntries :
          /\ Get(punctuationByIndexEntryStruct, e, "referenceAbbreviation").t = "uchar[]"
          /\ DOMAIN IdxAbbrev(e) = 1..(3 + 1)

(* A local punctuationByRefEntry copied from an entry whose four elements  *)
(* are all characters (no terminator).                                     *)
C4_Witness ==
    /\ conv.from = "punctuationByIndexEntry"
    /\ \A k \in 1..(3 + 1) : IdxAbbrev(conv.orig)[k] # 0
    /\ DOMAIN RefAbbrev(conv.mid) = 1..(3 + 1)

C6_IndexNonNegative ==
    /\ \A e \in AllRefEntries : RefIndex(e) >= 0
    /\ \A e \in AllIdxEntries : IdxIndex(e) >= 0

(* C6, amended: the indexNumber of every entry is a value of the signed    *)
(* int type, INT_MIN <= indexNumber <= INT_MAX; negative values included.  *)
C6_IndexInIntRange ==
    /\ \A e \in AllRefEntries :
          /\ Get(punctuationByRefEntryStruct, e, "indexNumber").t = "int"
          /\ IntMin <= RefIndex(e) /\ RefIndex(e) <= IntMax
    /\ \A e \in AllIdxEntries :
          /\ Get(punctuationByIndexEntryStruct, e, "indexNumber").t = "int"
          /\ IntMin <= IdxIndex(e) /\ IdxIndex(e) <= IntMax

(* An entry with the least int as its index, copied to the other type. *)
C6_Witness ==
    /\ conv.from = "punctuationByIndexEntry"
    /\ IdxIndex(conv.orig) = IntMin
    /\ RefIndex(conv.mid) = IntMin

(* C7: for every tableEntry the array reached through byReference is in    *)
(* non-decreasing order of referenceAbbreviation and the array reached     *)
(* through byBook in non-decreasing order of indexNumber.                  *)
C7_ArraysSorted ==
    \A t \in Systems :
        /\ \A i \in 1..(Len(ByReferenceOf(t)) - 1) :
              LexLeq(RefAbbrev(ByReferenceOf(t)[i]), RefAbbrev(ByReferenceOf(t)[i + 1]))
        /\ \A i \in 1..(Len(ByBookOf(t)) - 1) :
              IdxIndex(ByBookOf(t)[i]) <= IdxIndex(ByBookOf(t)[i + 1])

(* A tableEntry whose byReference has been assigned another system's      *)
(* array and whose two arrays list the same two books in opposite orders.  *)
C7_Witness ==
    \E t \in Systems :
        /\ Get(tableEntryStruct, tables[t], "byReference").v # t
        /\ Get(tableEntryStruct, tables[t], "byBook").v = t
        /\ Len(ByReferenceOf(t)) = 2
        /\ Len(ByBookOf(t)) = 2
        /\ RefAbbrev(ByReferenceOf(t)[1]) = IdxAbbrev(ByBookOf(t)[2])
        /\ RefAbbrev(ByReferenceOf(t)[2]) = IdxAbbrev(ByBookOf(t)[1])
        /\ IdxIndex(ByBookOf(t)[1]) < IdxIndex(ByBookOf(t)[2])

(* C8: a punctuationByRefEntry is (referenceAbbreviation, indexNumber), a  *)
(* punctuationByIndexEntry is (indexNumber, referenceAbbreviation), a      *)
(* tableEntry is (systemName, byReference, byBook) with byReference        *)
(* referring to punctuationByRefEntry elements and byBook to               *)
(* punctuationByIndexEntry elements: 2, 2 and 3 fields in those orders.    *)
C8_FieldOrderAndCount ==
    /\ \A e \in ArrayRefEntries :
          /\ DOMAIN e = 1..2
          /\ e[1].t = "uchar[]" /\ e[2].t = "int"
          /\ e[1] = Get(punctuationByRefEntryStruct, e, "referenceAbbreviation")
          /\ e[2] = Get(punctuationByRefEntryStruct, e, "indexNumber")
    /\ \A e \in ArrayIdxEntries :
          /\ DOMAIN e = 1..2
          /\ e[1].t = "int" /\ e[2].t = "uchar[]"
          /\ e[1] = Get(punctuationByIndexEntryStruct, e, "indexNumber")
          /\ e[2] = Get(punctuationByIndexEntryStruct, e, "referenceAbbreviation")
    /\ \A t \in Systems :
          /\ DOMAIN tables[t] = 1..3
          /\ \A k \in 1..3 : tables[t][k].t = "ptr"
          /\ tables[t][1].to = "uchar"
          /\ tables[t][2].to = "punctuationByRefEntry"
          /\ tables[t][3].to = "punctuationByIndexEntry"
          /\ tables[t][1] = Get(tableEntryStruct, tables[t], "systemName")
          /\ tables[t][2] = Get(tableEntryStruct, tables[t], "byReference")
          /\ tables[t][3] = Get(tableEntryStruct, tables[t], "byBook")

(* A tableEntry all three of whose fields have been assigned. *)
C8_Witness ==
    /\ tables[2][1].v = 1
    /\ tables[2][2].v = 1
    /\ tables[2][3].v = 1

(* C9: no step changes the referenceAbbreviation or the indexNumber of an  *)
(* entry of any array, whichever tableEntry refers to it and whatever is   *)
(* assigned to byReference and byBook.                                     *)
C9_EntryFieldsNeverChange ==
    [][refArrays' = refArrays /\ idxArrays' = idxArrays]_vars

(* The two tableEntry have exchanged their arrays. *)
C9_Witness ==
    /\ Get(tableEntryStruct, tables[1], "byReference").v = 2
    /\ Get(tableEntryStruct, tables[2], "byReference").v = 1
    /\ Get(tableEntryStruct, tables[1], "byBook").v = 2
    /\ Get(tableEntryStruct, tables[2], "byBook").v = 1
    /\ refArrays[1] # refArrays[2]

====
